---- MODULE Spec2Model ----
(***************************************************************************)
(* A model of file-downloader (main.go): one run of downloadFile, its four *)
(* concurrent downloadPart goroutines, the HTTP server they talk to and    *)
(* the files they write.                                                   *)
(*                                                                         *)
(* Strings that the program parses (the Content-Length header) are         *)
(* sequences of one-character strings, so that strconv.ParseInt is        *)
(* modelled by what it does.  File contents are sequences of bytes.        *)
(***************************************************************************)
EXTENDS Integers, Sequences, FiniteSets, TLC

\* ------------------------------------------------------------ constants
\* const NUM_PARTS = 4
NUM_PARTS == 4
\* const MAX_RETRIES = 3
MAX_RETRIES == 3

\* ------------------------------------------------------------ bounds
\* The largest remote file of the model, in bytes.
MaxSize == 6
\* The largest total size and part count given to the planner on its own.
MaxPlanSize == 20
MaxPlanN == 8

Parts == 1..NUM_PARTS

Min(a, b) == IF a <= b THEN a ELSE b

\* ------------------------------------------------------------ strconv
Digits == <<"0", "1", "2", "3", "4", "5", "6", "7", "8", "9">>

IsDigit(c) == \E d \in 1..10 : Digits[d] = c

DigitVal(c) == (CHOOSE d \in 1..10 : Digits[d] = c) - 1

RECURSIVE DigitsValue(_, _)
\* The value of the digit string s, read left to right from the value acc.
DigitsValue(s, acc) ==
    IF s = <<>> THEN acc
    ELSE DigitsValue(Tail(s), acc * 10 + DigitVal(Head(s)))

\* strconv.ParseInt(s, 10, 64): an optional sign, then one or more decimal
\* digits; anything else is a syntax error.  (The model's strings are far
\* below the 64-bit range, so the range error never arises.)
ParseInt(s) ==
    LET signed == s /= <<>> /\ Head(s) \in {"+", "-"}
        body   == IF signed THEN Tail(s) ELSE s
        valid  == body /= <<>> /\ \A k \in 1..Len(body) : IsDigit(body[k])
        mag    == IF valid THEN DigitsValue(body, 0) ELSE 0
    IN  [ok  |-> valid,
         val |-> IF signed /\ Head(s) = "-" THEN 0 - mag ELSE mag]

RECURSIVE FormatInt(_)
\* The decimal text of n >= 0, as a server writes it in Content-Length.
FormatInt(n) ==
    IF n < 10 THEN <<Digits[n + 1]>>
    ELSE Append(FormatInt(n \div 10), Digits[(n % 10) + 1])

\* Go's integer division truncates toward zero.
DivRoundingUp(a, b) == (a + b - 1) \div b

GoDiv(a, b) == IF a >= 0 THEN a \div b ELSE 0 - ((0 - a) \div b)

\* ------------------------------------------------------------ planner
\* The end of part i (0-indexed) as the planner's else branch computes it.
RangeEndDroppingRemainder(i, partSize, totalSize, n) ==
    i * partSize + partSize - 1

\* downloadFile, the loop body: the inclusive end of part i (0-indexed).
RangeEnd(i, partSize, totalSize, n) ==
    IF i = n - 1 THEN totalSize - 1 ELSE i * partSize + partSize - 1

\* downloadFile, "calculate byte range for each part": ranges[i] is
\* <<start, end>>, 1-indexed here (ranges[i] is the code's ranges[i-1]).
PlanRanges(totalSize, n) ==
    LET partSize == GoDiv(totalSize, n)
    IN  [i \in 1..n |->
            <<(i - 1) * partSize, RangeEnd(i - 1, partSize, totalSize, n)>>]

\* ------------------------------------------------------------ server
\* The remote file of n bytes; every byte differs from the others.
Content(n) == [k \in 1..n |-> k]

\* The sizes of the remote file: empty, smaller than the part count, a
\* multiple of the part count, and the largest, which leaves a remainder.
FileSizes == {0, 2, 4, MaxSize}

\* What the server puts in Content-Length: the true length, or nothing, or
\* text that is not a number, or a negative number.
BadLengths == {<<>>, <<"x">>, <<"-", "1">>}

Servers ==
    {[content |-> Content(n), cl |-> FormatInt(n)] : n \in FileSizes}
    \cup {[content |-> Content(MaxSize), cl |-> b] : b \in BadLengths}

\* A range the server can answer with 206: "bytes=start-end" with
\* 0 <= start <= end and start inside the file.
Satisfiable(data, rng) ==
    /\ 0 <= rng[1]
    /\ rng[1] <= rng[2]
    /\ rng[1] < Len(data)

\* The body of a response of the given status to a request for rng: 206
\* carries the requested bytes, 200 the whole file.
ResponseBody(status, data, rng) ==
    IF status = "206"
    THEN SubSeq(data, rng[1] + 1, Min(rng[2] + 1, Len(data)))
    ELSE data

\* ------------------------------------------------------------ files
NoFile == [exists |-> FALSE, data |-> <<>>]
File(d) == [exists |-> TRUE, data |-> d]

\* What an earlier run that failed may have left in a temp file: bytes that
\* are not in the remote file, more of them than any response carries.
Stale == File([k \in 1..(MaxSize + 1) |-> 0])

\* The file after os.Create: there, and empty, whatever it was.
OpenedKeeping(file) == File(file.data)

Created(file) == File(<<>>)

\* The bytes of a file of bytes old after data is written from its start.
Overwritten(old, data) == data \o SubSeq(old, Len(data) + 1, Len(old))

\* The file after os.Remove.
Kept(file) == file

Removed(file) == NoFile

\* fmt.Sprintf("part-%d.tmp", partNum): the temp file of part partNum.
SharedTempFile(partNum) == 1

TempFileOf(partNum) == partNum

\* ------------------------------------------------------------ errors
Err(kind, part, cause) == [kind |-> kind, part |-> part, cause |-> cause]
NoResult == Err("none", 0, "none")
Nil == Err("nil", 0, "none")

VARIABLES
    server,     \* the remote file and the Content-Length the server sends
    stale,      \* an earlier run left its temp files in the directory
    pc,         \* downloadFile's position
    fHeaders,   \* the ResHeaders got by getFileHeaders
    totalSize,  \* downloadFile's totalSize
    ranges,     \* downloadFile's ranges
    f,          \* the downloadPart goroutines: position, attempt, the sleep
                \* under way in seconds, the status of the response accepted
    errChan,    \* the error channel, oldest message first
    tempFiles,  \* the temp file name channel, oldest message first (a
                \* message is the part number of the name "part-N.tmp")
    parts,      \* the files part-1.tmp .. part-4.tmp
    outFile,    \* the output file at the destination
    asmIdx,     \* the assembly loop's i
    result,     \* what downloadFile returned
    cancelled,  \* ctx is done
    heads,      \* history: the HEAD requests sent
    plan        \* the planner on its own: its inputs and its result

vars == <<server, stale, pc, fHeaders, totalSize, ranges, f, errChan, tempFiles,
          parts, outFile, asmIdx, result, cancelled, heads, plan>>

runVars == <<server, stale, pc, fHeaders, totalSize, ranges, f, errChan, tempFiles,
             parts, outFile, asmIdx, result, cancelled, heads>>

Idle == [pc |-> "idle", attempt |-> 0, delay |-> 0, resp |-> "none"]
NoPlan == [totalSize |-> 0, n |-> 0, ranges |-> <<>>, done |-> FALSE]

InitRun ==
    /\ server \in Servers
    /\ pc = "headers"
    /\ fHeaders = [ContentLegnth |-> <<>>]
    /\ totalSize = 0
    /\ ranges = [i \in Parts |-> <<0, 0>>]
    /\ f = [i \in Parts |-> Idle]
    /\ errChan = <<>>
    /\ tempFiles = <<>>
    /\ stale \in BOOLEAN
    /\ parts = [i \in Parts |-> IF stale THEN Stale ELSE NoFile]
    /\ outFile = NoFile
    /\ asmIdx = 1
    /\ result = NoResult
    /\ cancelled = FALSE
    /\ heads = 0

Init == InitRun /\ plan = NoPlan

\* ------------------------------------------------------------ downloadFile
Return(e) == result' = e /\ pc' = "done"

\* The outcomes of one HEAD request.
HeadOutcomes == {"net", "status", "ok"}

\* getFileHeaders, called from downloadFile.
GetFileHeaders ==
    /\ pc = "headers"
    /\ heads' = heads + 1
    /\ \E o \in HeadOutcomes :
        IF o = "ok" /\ server.cl /= <<>>
        THEN /\ fHeaders' = [ContentLegnth |-> server.cl]
             /\ pc' = "size"
             /\ UNCHANGED result
        ELSE /\ Return(Err("HeadersFailed", 0,
                           IF o = "ok" THEN "missing" ELSE o))
             /\ UNCHANGED fHeaders
    /\ UNCHANGED <<server, stale, totalSize, ranges, f, errChan, tempFiles, parts,
                   outFile, asmIdx, cancelled, plan>>

\* getFileSize, called from downloadFile.
GetFileSize ==
    /\ pc = "size"
    /\ heads' = heads + 1
    /\ \E o \in HeadOutcomes :
        LET size == ParseInt(server.cl)
        IN  IF o = "ok" /\ server.cl /= <<>> /\ size.ok
            THEN /\ totalSize' = size.val
                 /\ pc' = "plan"
                 /\ UNCHANGED result
            ELSE /\ Return(Err("SizeFailed", 0,
                               IF o /= "ok" THEN o
                               ELSE IF server.cl = <<>> THEN "missing"
                               ELSE "invalid"))
                 /\ UNCHANGED totalSize
    /\ UNCHANGED <<server, stale, fHeaders, ranges, f, errChan, tempFiles, parts,
                   outFile, asmIdx, cancelled, plan>>

\* downloadFile: the range loop, then the loop that starts the goroutines.
PlanAndLaunch ==
    /\ pc = "plan"
    /\ ranges' = PlanRanges(totalSize, NUM_PARTS)
    /\ f' = [i \in Parts |-> [Idle EXCEPT !.pc = "get", !.attempt = 1]]
    /\ pc' = "wait"
    /\ UNCHANGED <<server, stale, fHeaders, totalSize, errChan, tempFiles, parts,
                   outFile, asmIdx, result, cancelled, heads, plan>>

\* wg.Wait() returns: every goroutine has run its deferred wg.Done().
AnyDone == \E i \in Parts : f[i].pc = "done"

AllDone == \A i \in Parts : f[i].pc = "done"

\* downloadFile, "return the first error, if any errors": len(errChan) > 0.
AllFailed == Len(errChan) = NUM_PARTS

HasErrors == Len(errChan) > 0

\* wg.Wait(), the two close calls and the error check of downloadFile.
WaitAndCheck ==
    /\ pc = "wait"
    /\ AllDone
    /\ IF HasErrors
       THEN Return(Head(errChan))
       ELSE pc' = "create" /\ UNCHANGED result
    /\ UNCHANGED <<server, stale, fHeaders, totalSize, ranges, f, errChan,
                   tempFiles, parts, outFile, asmIdx, cancelled, heads, plan>>

\* os.Create(filepath) in downloadFile: the output file, emptied, or an error.
CreateOutFile ==
    /\ pc = "create"
    /\ \/ /\ outFile' = Created(outFile)
          /\ asmIdx' = 1
          /\ pc' = "open"
          /\ UNCHANGED result
       \/ /\ Return(Err("CreateOutFailed", 0, "disk"))
          /\ UNCHANGED <<outFile, asmIdx>>
    /\ UNCHANGED <<server, stale, fHeaders, totalSize, ranges, f, errChan,
                   tempFiles, parts, cancelled, heads, plan>>

\* What io.Copy has written when it fails part-way: nothing (the
\* destination stays as it was).
PartialWrite(body) == <<>>

\* The part whose temp file the assembly loop opens in its round i.
PartByArrival(i) == tempFiles[i]

PartToRead(i) == TempFileOf(i)

\* os.Open(tempFileName) in the assembly loop: fails when the file is not
\* there, and may fail when it is.
OpenTemp ==
    /\ pc = "open"
    /\ \/ /\ parts[PartToRead(asmIdx)].exists
          /\ pc' = "copy"
          /\ UNCHANGED result
       \/ Return(Err("OpenTempFailed", PartToRead(asmIdx), "disk"))
    /\ UNCHANGED <<server, stale, fHeaders, totalSize, ranges, f, errChan,
                   tempFiles, parts, outFile, asmIdx, cancelled, heads, plan>>

\* io.Copy(outFile, tempFile), tempFile.Close() and os.Remove(tempFileName)
\* in the assembly loop; after the last part downloadFile returns nil.
CopyTemp ==
    /\ pc = "copy"
    /\ LET p == PartToRead(asmIdx)
       IN  \/ /\ outFile' = File(outFile.data \o parts[p].data)
              /\ parts' = [parts EXCEPT ![p] = Removed(parts[p])]
              /\ IF asmIdx = NUM_PARTS
                 THEN Return(Nil) /\ UNCHANGED asmIdx
                 ELSE /\ asmIdx' = asmIdx + 1
                      /\ pc' = "open"
                      /\ UNCHANGED result
           \/ /\ outFile' = File(outFile.data \o PartialWrite(parts[p].data))
              /\ Return(Err("CopyTempFailed", p, "disk"))
              /\ UNCHANGED <<parts, asmIdx>>
    /\ UNCHANGED <<server, stale, fHeaders, totalSize, ranges, f, errChan,
                   tempFiles, cancelled, heads, plan>>

\* ------------------------------------------------------------ downloadPart
\* make(chan string, NUM_PARTS), make(chan error, NUM_PARTS): the messages
\* a channel holds before a send blocks.
OneSlot == NUM_PARTS - 3

ChanCap == NUM_PARTS

\* A goroutine in the state st that returns without sending, or sends and
\* starts over instead of returning.
ReturnWithoutSend(i, e, st) ==
    /\ UNCHANGED errChan
    /\ f' = [f EXCEPT ![i] = [st EXCEPT !.pc = "done"]]

SendWithoutReturn(i, e, st) ==
    /\ Len(errChan) < ChanCap
    /\ errChan' = Append(errChan, e)
    /\ f' = [f EXCEPT ![i] = [st EXCEPT !.pc = "get", !.attempt = 1]]

\* errChan <- e and return, then the deferred wg.Done(); st is the state
\* the goroutine returns from.
Fail(i, e, st) ==
    /\ Len(errChan) < ChanCap
    /\ errChan' = Append(errChan, e)
    /\ f' = [f EXCEPT ![i] = [st EXCEPT !.pc = "done"]]

\* The outcomes of http.DefaultClient.Do for part i: a transport error, a
\* status other than 200 and 206, 206 with the range, 200 with the file;
\* with ctx done, the context's error.
GetOutcomes(i) ==
    IF cancelled THEN {"ctx"}
    ELSE {"net", "status", "200"}
         \cup (IF Satisfiable(server.content, ranges[i]) THEN {"206"} ELSE {})

\* "if attempt < MAX_RETRIES": another attempt follows this failed one.
RetriesOneLess(attempt) == attempt < MAX_RETRIES - 1

CanRetry(attempt) == attempt < MAX_RETRIES

\* time.Second * time.Duration(attempt), in seconds.
OneSecond(attempt) == 1

SleepSeconds(attempt) == attempt

\* One round of the retry loop, up to its time.Sleep, its return or its
\* break.  A failed attempt that is not the last goes to sleep; the last one
\* sends its error and returns.  A 200 or 206 breaks out of the loop (attempt
\* is the loop's variable: it is 0 once the loop is left by break), and
\* os.Create(tempFileName) follows.
DoGet(i) ==
    /\ f[i].pc = "get"
    /\ \E o \in GetOutcomes(i) :
        IF o \in {"200", "206"}
        THEN LET t == TempFileOf(i)
                 left == [f[i] EXCEPT !.resp = o, !.attempt = 0]
             IN  \/ /\ parts' = [parts EXCEPT ![t] = Created(parts[t])]
                    /\ f' = [f EXCEPT ![i] = [left EXCEPT !.pc = "copy"]]
                    /\ UNCHANGED errChan
                 \/ /\ Fail(i, Err("CreateTempFailed", i, "disk"), left)
                    /\ UNCHANGED parts
        ELSE IF CanRetry(f[i].attempt)
        THEN /\ f' = [f EXCEPT ![i].pc = "sleep",
                                ![i].delay = SleepSeconds(f[i].attempt)]
             /\ UNCHANGED <<errChan, parts>>
        ELSE /\ Fail(i, Err(IF o = "status" THEN "BadStatus" ELSE "GetFailed",
                            i, o), f[i])
             /\ UNCHANGED parts
    /\ UNCHANGED <<server, stale, pc, fHeaders, totalSize, ranges, tempFiles,
                   outFile, asmIdx, result, cancelled, heads, plan>>

\* time.Sleep returns (it does not watch ctx), continue, attempt++.
Sleep(i) ==
    /\ f[i].pc = "sleep"
    /\ f' = [f EXCEPT ![i].pc = "get", ![i].attempt = @ + 1, ![i].delay = 0]
    /\ UNCHANGED <<server, stale, pc, fHeaders, totalSize, ranges, errChan,
                   tempFiles, parts, outFile, asmIdx, result, cancelled,
                   heads, plan>>

\* io.Copy(tempFile, resp.Body), then tempFiles <- tempFileName.
CopyBody(i) ==
    /\ f[i].pc = "copy"
    /\ LET body == ResponseBody(f[i].resp, server.content, ranges[i])
           t == TempFileOf(i)
       IN  \/ /\ Len(tempFiles) < ChanCap
              /\ parts' = [parts EXCEPT
                            ![t] = File(Overwritten(parts[t].data, body))]
              /\ tempFiles' = Append(tempFiles, t)
              /\ f' = [f EXCEPT ![i].pc = "done"]
              /\ UNCHANGED errChan
           \/ /\ parts' = [parts EXCEPT
                            ![t] = File(Overwritten(parts[t].data,
                                                    PartialWrite(body)))]
              /\ Fail(i, Err("WriteTempFailed", i,
                             IF cancelled THEN "ctx" ELSE "disk"), f[i])
              /\ UNCHANGED tempFiles
    /\ UNCHANGED <<server, stale, pc, fHeaders, totalSize, ranges, outFile, asmIdx,
                   result, cancelled, heads, plan>>

\* The context given to downloadFile is cancelled or its deadline passes.
Cancel ==
    /\ pc /= "done"
    /\ ~cancelled
    /\ cancelled' = TRUE
    /\ UNCHANGED <<server, stale, pc, fHeaders, totalSize, ranges, f, errChan,
                   tempFiles, parts, outFile, asmIdx, result, heads, plan>>

Next ==
    \/ GetFileHeaders
    \/ GetFileSize
    \/ PlanAndLaunch
    \/ WaitAndCheck
    \/ CreateOutFile
    \/ OpenTemp
    \/ CopyTemp
    \/ Cancel
    \/ \E i \in Parts : DoGet(i)
    \/ \E i \in Parts : Sleep(i)
    \/ \E i \in Parts : CopyBody(i)

Spec == Init /\ [][Next]_vars

\* The steps of the program: every step but the cancellation, which comes
\* from outside.
Progress ==
    \/ GetFileHeaders
    \/ GetFileSize
    \/ PlanAndLaunch
    \/ WaitAndCheck
    \/ CreateOutFile
    \/ OpenTemp
    \/ CopyTemp
    \/ \E i \in Parts : DoGet(i)
    \/ \E i \in Parts : Sleep(i)
    \/ \E i \in Parts : CopyBody(i)

\* A run in a directory without temp files of an earlier run (the files
\* there do not change which steps the program can take).
InitClean == Init /\ ~stale

\* Every HTTP request, sleep and file operation returns, and a goroutine
\* that can run does: a step of the program that stays possible is taken.
LiveSpec == InitClean /\ [][Next]_vars /\ WF_vars(Progress)

\* ------------------------------------------------------------ the planner alone
\* The planner's inputs: a total size and a part count.
PlanInputs ==
    {[NoPlan EXCEPT !.totalSize = t, !.n = n] :
        t \in (0..MaxPlanSize) \cup {101}, n \in 1..MaxPlanN}

InitPlan == InitRun /\ plan \in PlanInputs

\* The range loop of downloadFile, run on the inputs.
ComputePlan ==
    /\ ~plan.done
    /\ plan' = [plan EXCEPT !.ranges = PlanRanges(plan.totalSize, plan.n),
                            !.done = TRUE]
    /\ UNCHANGED runVars

PlanNext == ComputePlan

PlanSpec == InitPlan /\ [][PlanNext]_vars

\* ------------------------------------------------------------ claims
RECURSIVE SumTo(_, _)
\* The sum of len[1] .. len[k].
SumTo(len, k) == IF k = 0 THEN 0 ELSE SumTo(len, k - 1) + len[k]

RECURSIVE ConcatTo(_, _)
\* seqs[1] \o .. \o seqs[k]
ConcatTo(seqs, k) == IF k = 0 THEN <<>> ELSE ConcatTo(seqs, k - 1) \o seqs[k]

\* The bytes of data that the range rng asks for.
Requested(data, rng) == SubSeq(data, rng[1] + 1, rng[2] + 1)

\* The body of the response goroutine i accepted.
AcceptedBody(i) == ResponseBody(f[i].resp, server.content, ranges[i])

\* Goroutine i accepted a response that carried exactly its range.
ExactResponse(i) ==
    /\ f[i].resp /= "none"
    /\ AcceptedBody(i) = Requested(server.content, ranges[i])

\* C1: a run that returns nil has written the accepted bodies to the output
\* file in ascending part order; when the size is the file's, is positive,
\* and every accepted response carried exactly its range, the output file is
\* the remote file, whatever the order in which the goroutines finished.
C1_RoundTrip ==
    result = Nil =>
        /\ outFile = File(ConcatTo([i \in Parts |-> AcceptedBody(i)], NUM_PARTS))
        /\ (/\ totalSize > 0
            /\ totalSize = Len(server.content)
            /\ \A i \in Parts : ExactResponse(i))
           => outFile = File(server.content)

\* A run of the largest file that returned nil after the goroutines
\* finished in descending part order, each with exactly its range.
C1_Witness ==
    /\ result = Nil
    /\ totalSize = MaxSize
    /\ \A i \in Parts : ExactResponse(i)
    /\ tempFiles = [k \in Parts |-> NUM_PARTS + 1 - k]
    /\ outFile = File(server.content)

\* C2: for a total size above 0 the planner's ranges start at 0, each ends
\* right before the next starts, the last ends at totalSize - 1, and their
\* lengths add up to totalSize.
C2_RangeCoverage ==
    (plan.done /\ plan.totalSize > 0) =>
        LET r == plan.ranges
            n == plan.n
        IN  /\ Len(r) = n
            /\ r[1][1] = 0
            /\ \A i \in 1..(n - 1) : r[i][2] + 1 = r[i + 1][1]
            /\ r[n][2] = plan.totalSize - 1
            /\ SumTo([i \in 1..n |-> r[i][2] - r[i][1] + 1], n) = plan.totalSize

\* The planner ran on a size that leaves a remainder.
C2_Witness ==
    /\ plan.done
    /\ plan.totalSize = 10
    /\ plan.n = 4
    /\ plan.ranges = <<(<<0, 1>>), (<<2, 3>>), (<<4, 5>>), (<<6, 9>>)>>

\* The assembly has begun: the output file is being created or written.
Assembling == pc \in {"open", "copy"} \/ outFile.exists

\* C3: the output file is not created and no temp file is opened for
\* assembly while a goroutine has not finished.
C3_Barrier ==
    (Assembling \/ pc = "create") => \A i \in Parts : f[i].pc = "done"

\* The assembly is reading a temp file, every goroutine having finished.
C3_Witness ==
    /\ pc = "copy"
    /\ asmIdx = 2
    /\ \A i \in Parts : f[i].pc = "done"

\* C4: when a goroutine has sent an error, there is no output file, and
\* downloadFile, once it has returned, has returned an error.
C4_AllOrNothing ==
    (\E i \in Parts : \E k \in 1..Len(errChan) : errChan[k].part = i) =>
        /\ ~outFile.exists
        /\ pc = "done" => result \notin {Nil, NoResult}

\* downloadFile returned with one goroutine failed and three succeeded.
C4_Witness ==
    /\ pc = "done"
    /\ Len(errChan) = 1
    /\ Len(tempFiles) = NUM_PARTS - 1
    /\ result = Head(errChan)
    /\ ~outFile.exists

\* The parts whose goroutine has sent an error.
FailedParts == {errChan[k].part : k \in 1..Len(errChan)}

\* C5: when two or more goroutines failed, downloadFile returns the error
\* of the failed part with the lowest number.
C5_LowestIndexError ==
    (pc = "done" /\ Len(errChan) >= 2) =>
        \A p \in FailedParts : result.part <= p

\* An error that says the part could not be retrieved.
RetrievalFailure(e) == e.kind \in {"GetFailed", "BadStatus"}

\* Goroutine i has sent a retrieval failure.
ReportedRetrievalFailure(i) ==
    \E k \in 1..Len(errChan) :
        errChan[k].part = i /\ RetrievalFailure(errChan[k])

\* C6: the attempts of a goroutine are numbered 1, 2, .. in order; a failed
\* attempt k below MAX_RETRIES is followed by a sleep of k seconds and then
\* by attempt k + 1; a retrieval failure is sent by attempt MAX_RETRIES
\* only, which so is the MAX_RETRIES-th GET request; and a goroutine that
\* has finished does nothing more.
C6_RetryExhaustion ==
    [][\A i \in Parts :
        /\ (f[i].pc = "get" /\ f'[i].pc = "sleep") =>
              /\ f[i].attempt < MAX_RETRIES
              /\ f'[i].attempt = f[i].attempt
              /\ f'[i].delay = f[i].attempt
        /\ (f[i].pc = "sleep" /\ f'[i] /= f[i]) =>
              /\ f'[i].pc = "get"
              /\ f'[i].attempt = f[i].attempt + 1
        /\ (f[i].pc = "get" /\ f'[i].pc = "get") => f'[i] = f[i]
        /\ (~ReportedRetrievalFailure(i) /\ ReportedRetrievalFailure(i)') =>
              /\ f[i].pc = "get"
              /\ f[i].attempt = MAX_RETRIES
              /\ f'[i].pc = "done"
        /\ (f[i].pc = "get" /\ f[i].attempt = MAX_RETRIES
                /\ f'[i].pc = "done" /\ f'[i].resp = "none") =>
              ReportedRetrievalFailure(i)'
        /\ f[i].pc = "done" => f'[i] = f[i]]_vars

\* Goroutine 1 sent a retrieval failure at attempt MAX_RETRIES, after
\* sleeping between the attempts, and has finished.
C6_Witness ==
    /\ f[1].pc = "done"
    /\ f[1].attempt = MAX_RETRIES
    /\ ReportedRetrievalFailure(1)
    /\ f[2].pc = "sleep"
    /\ f[2].attempt = 2
    /\ f[2].delay = 2

\* C7: the temp file of a goroutine that reported success holds exactly
\* end - start + 1 bytes.
C7_ExactLength ==
    \A k \in 1..Len(tempFiles) :
        LET i == tempFiles[k]
        IN  parts[i].exists =>
                Len(parts[i].data) = ranges[i][2] - ranges[i][1] + 1

\* C8: once ctx is done, a goroutine that sleeps before a retry does not go
\* on to another GET attempt.
C8_CancelStopsRetries ==
    [][cancelled => \A i \in Parts : ~(f[i].pc = "sleep" /\ f'[i].pc = "get")]_vars

\* C9: an error that downloadFile returns because ctx was done is a
\* cancellation error: it is neither a retrieval failure nor a write failure.
C9_CancellationError ==
    (pc = "done" /\ result.cause = "ctx") =>
        /\ ~RetrievalFailure(result)
        /\ result.kind /= "WriteTempFailed"

\* C10: the ranges are planned and the goroutines started only with a
\* totalSize above 0.
C10_PositiveSize ==
    (pc = "plan" \/ \E i \in Parts : f[i].pc /= "idle") => totalSize > 0

\* C11: no goroutine is started with a range whose start is above its end.
C11_NoDegenerateRanges ==
    \A i \in Parts : f[i].pc /= "idle" => ranges[i][1] <= ranges[i][2]

C13_NoPartialOutput ==
    pc = "done" =>
        \/ result = Nil /\ outFile.exists /\ Len(outFile.data) = totalSize
        \/ result /= Nil /\ ~outFile.exists

\* C14: a run sends the HEAD request once.
C14_SingleProbe == heads <= 1

\* C15: with base = totalSize div N, range i (0-indexed) below N - 1 is
\* [i*base, (i+1)*base - 1] and the last is [(N-1)*base, totalSize - 1];
\* totalSize 101 with N = 4 gives [0,24], [25,49], [50,74], [75,100].
C15_PlannerFormula ==
    plan.done =>
        LET r == plan.ranges
            n == plan.n
            base == plan.totalSize \div n
        IN  /\ \A i \in 0..(n - 2) :
                  r[i + 1] = <<i * base, (i + 1) * base - 1>>
            /\ r[n] = <<(n - 1) * base, plan.totalSize - 1>>
            /\ (plan.totalSize = 101 /\ n = 4) =>
                  r = <<(<<0, 24>>), (<<25, 49>>), (<<50, 74>>), (<<75, 100>>)>>

\* The planner ran on 101 bytes and 4 parts.
C15_Witness ==
    /\ plan.done
    /\ plan.totalSize = 101
    /\ plan.n = 4
    /\ plan.ranges[4] = <<75, 100>>

\* C16: a temp file changes only in a step of its own goroutine, before the
\* barrier, or in the assembly's round for it, after the barrier; and the
\* assembly opens and reads temp files only when every goroutine has
\* finished.
C16_ExclusiveOwnership ==
    [][/\ \A t \in Parts :
            parts'[t] /= parts[t] =>
                \/ /\ pc = "wait"
                   /\ f[t].pc \in {"get", "copy"}
                   /\ f'[t] /= f[t]
                   /\ \A j \in Parts \ {t} : f'[j] = f[j]
                \/ /\ pc = "copy"
                   /\ asmIdx = t
                   /\ f' = f
       /\ pc \in {"open", "copy"} => AllDone]_vars

\* Goroutine 1 is writing its temp file while goroutine 2 has finished and
\* its temp file holds its whole body.
C16_Witness ==
    /\ f[1].pc = "copy"
    /\ parts[1] = File(<<>>)
    /\ f[2].pc = "done"
    /\ tempFiles = <<2>>
    /\ parts[2] = File(AcceptedBody(2))
    /\ totalSize = MaxSize

\* The messages goroutine i has sent on the two channels.
Reports(i) ==
    Cardinality({k \in 1..Len(errChan) : errChan[k].part = i})
    + Cardinality({k \in 1..Len(tempFiles) : tempFiles[k] = i})

\* C17: a goroutine that has finished has sent exactly one message, one
\* that has not has sent none, and after the barrier the two channels hold
\* NUM_PARTS messages together.
C17_OneReportPerTask ==
    /\ \A i \in Parts : Reports(i) = IF f[i].pc = "done" THEN 1 ELSE 0
    /\ AllDone => Len(errChan) + Len(tempFiles) = NUM_PARTS

\* Every goroutine has finished, two with an error and two with success.
C17_Witness ==
    /\ AllDone
    /\ Len(errChan) = 2
    /\ Len(tempFiles) = 2

\* An error of the local storage.
StorageFailure(e) == e.kind \in {"CreateTempFailed", "WriteTempFailed"}

\* Goroutine i has sent a storage failure.
ReportedStorageFailure(i) ==
    \E k \in 1..Len(errChan) :
        errChan[k].part = i /\ StorageFailure(errChan[k])

\* C18: a goroutine that has accepted a response makes no further GET
\* attempt; a storage failure is sent in the step in which the create or the
\* copy fails, and the goroutine finishes with it.
C18_StorageFailureNotRetried ==
    [][\A i \in Parts :
        /\ (f[i].resp /= "none" \/ f'[i].resp /= "none") =>
              f'[i].pc \notin {"get", "sleep"}
        /\ (~ReportedStorageFailure(i) /\ ReportedStorageFailure(i)') =>
              /\ f[i].pc \in {"get", "copy"}
              /\ f'[i].pc = "done"
        /\ (f[i].pc = "get" /\ f'[i].resp /= "none" /\ f'[i].pc = "done") =>
              ReportedStorageFailure(i)']_vars

\* Goroutine 1 finished with a failed os.Create and goroutine 2 with a
\* failed io.Copy, while goroutine 3 is still at its first attempt.
C18_Witness ==
    /\ errChan = <<Err("CreateTempFailed", 1, "disk"),
                   Err("WriteTempFailed", 2, "disk")>>
    /\ f[1].pc = "done"
    /\ f[2].pc = "done"
    /\ f[3].pc = "get"
    /\ f[3].attempt = 1

\* C19: downloadFile returns.
C19_Termination == <>(pc = "done" /\ result /= NoResult)

\* downloadFile returned after every goroutine had sent an error: the error
\* channel was filled to its capacity.
C19_Witness ==
    /\ pc = "done"
    /\ Len(errChan) = NUM_PARTS
    /\ result = Head(errChan)

\* C20: the temp file the assembly reads holds the body its goroutine
\* accepted in this run and nothing else, and no byte of an earlier run's
\* temp files is in the output file.
C20_NoStaleArtifacts ==
    /\ pc = "copy" => parts[asmIdx] = File(AcceptedBody(asmIdx))
    /\ \A k \in 1..Len(outFile.data) : outFile.data[k] /= 0

\* The assembly reads the second temp file in a directory where an earlier
\* run had left its temp files.
C20_Witness ==
    /\ stale
    /\ pc = "copy"
    /\ asmIdx = 2
    /\ totalSize = MaxSize
    /\ parts[2] = File(AcceptedBody(2))
    /\ outFile.data /= <<>>

====
